---- MODULE Spec2Model ----
(***************************************************************************)
(* Model of flask_velox.mixins.template.TemplateMixin: the view class's    *)
(* configuration attributes (template, context), the attribute lookups the *)
(* mixin performs on a view, and the three operations _template, render    *)
(* and get, run step by step by several views of one subclass.             *)
(***************************************************************************)
EXTENDS Naturals, FiniteSets

\* The view instances of the subclass; the framework builds one per request.
Views == {"v1", "v2"}

\* Largest number of entries of a context mapping the model enumerates.
MaxCtxKeys == 2

\* Template paths a subclass may configure; "" is the falsy one.
Templates == {"", "home.html"}

\* The name of the first (positional) parameter of flask.render_template.
RenderParam == "template_name_or_list"

\* Keys a context mapping may carry: ordinary strings, the string that is the
\* rendering function's own parameter name, and a key that is not a string.
Keys ==
    { [type |-> "str", name |-> "a"],
      [type |-> "str", name |-> RenderParam],
      [type |-> "int", name |-> "1"] }

ContextValues == {1}

EmptyMap == [k \in {} |-> 1]

Contexts ==
    UNION { [S -> ContextValues] : S \in {S \in SUBSET Keys : Cardinality(S) <= MaxCtxKeys} }

\* What the integrator assigns on a single view after building it.
InstTemplates == {"inst.html"}
InstContexts == { c \in Contexts : Cardinality(DOMAIN c) = 1 }

\* Errors a getter of a computed template attribute may raise.
GetterErrors == {"AttributeError", "ValueError"}

VARIABLES
    clsTemplate,   \* the subclass's `template` class attribute
    clsContext,    \* the subclass's `context` class attribute
    instTemplate,  \* per view: `template` in the instance __dict__
    instContext,   \* per view: `context` in the instance __dict__
    pc,            \* per view: position in the running operation
    op,            \* per view: the operation invoked from outside
    tmplLocal,     \* per view: value of self._template inside render
    kwLocal,       \* per view: mapping obtained by getattr(self, 'context', {})
    kwObj,         \* per view: identity of the default {} it holds, 0 if none
    ctxRead,       \* per view: the context attribute has been read
    calls,         \* per view: calls of render_template in this operation
    lastCall,      \* per view: arguments of the last render_template call
    renderOut,     \* per view: outcome of the render frame
    result         \* per view: outcome of the operation invoked

vars == << clsTemplate, clsContext, instTemplate, instContext, pc, op, tmplLocal,
           kwLocal, kwObj, ctxRead, calls, lastCall, renderOut, result >>

attrs == << clsTemplate, clsContext, instTemplate, instContext >>

locals == << tmplLocal, kwLocal, kwObj, ctxRead, calls, lastCall, renderOut, result >>

----------------------------------------------------------------------------
\* Attribute slots and outcomes.

Absent(dflt) == [kind |-> "absent", val |-> dflt, raises |-> "none"]
Plain(x) == [kind |-> "value", val |-> x, raises |-> "none"]
Computed(x, e) == [kind |-> "property", val |-> x, raises |-> e]

NoOutcome ==
    [kind |-> "none", rendered |-> FALSE, tpl |-> "", ctx |-> EmptyMap,
     err |-> "none", origin |-> "none"]
ReturnStr(t) ==
    [kind |-> "return", rendered |-> FALSE, tpl |-> t, ctx |-> EmptyMap,
     err |-> "none", origin |-> "none"]
ReturnRendered(t, kw) ==
    [kind |-> "return", rendered |-> TRUE, tpl |-> t, ctx |-> kw,
     err |-> "none", origin |-> "none"]
Raise(e, where) ==
    [kind |-> "raise", rendered |-> FALSE, tpl |-> "", ctx |-> EmptyMap,
     err |-> e, origin |-> where]

NoLocal(dflt) == [set |-> FALSE, val |-> dflt]
Local(x) == [set |-> TRUE, val |-> x]
NoCall == [tpl |-> "", ctx |-> EmptyMap]

----------------------------------------------------------------------------
\* self.template: a property of the class is a data descriptor and is used
\* first, then the instance __dict__, then a plain class attribute.
LookupTemplate(v) ==
    IF clsTemplate.kind = "property"
    THEN IF clsTemplate.raises = "none"
         THEN ReturnStr(clsTemplate.val)
         ELSE Raise(clsTemplate.raises, "getter")
    ELSE IF instTemplate[v].kind = "value" THEN ReturnStr(instTemplate[v].val)
    ELSE IF clsTemplate.kind = "value" THEN ReturnStr(clsTemplate.val)
    ELSE Raise("AttributeError", "lookup")

\* Variant: the attribute is tested for truth instead of presence.
Template_Truthy(v) ==
    LET a == LookupTemplate(v)
    IN  IF (a.kind = "raise" /\ a.err = "AttributeError") \/ (a.kind = "return" /\ a.tpl = "")
        THEN Raise("NotImplementedError", "mixin")
        ELSE a

\* Variant: a missing attribute is read with a default instead of raising.
Template_Defaulted(v) ==
    LET a == LookupTemplate(v)
    IN  IF a.kind = "raise" /\ a.err = "AttributeError" THEN ReturnStr("") ELSE a

\* TemplateMixin._template
Template(v) ==
    LET a == LookupTemplate(v)
    IN  IF a.kind = "raise" /\ a.err = "AttributeError"
        THEN Raise("NotImplementedError", "mixin")
        ELSE a

\* Variant: the default {} is built once and shared by every call.
FreshObj_Shared ==
    CHOOSE i \in 1..Cardinality(Views) : \A j \in 1..Cardinality(Views) : i <= j

\* The identity given to a newly built {}: one no view currently holds.
FreshObj ==
    CHOOSE i \in 1..Cardinality(Views) :
        /\ \A w \in Views : kwObj[w] # i
        /\ \A j \in 1..Cardinality(Views) : (\A w \in Views : kwObj[w] # j) => i <= j

\* Variant: only the instance __dict__ is consulted for context.
LookupContext_InstanceOnly(v) ==
    IF instContext[v].kind = "value" THEN [val |-> instContext[v].val, obj |-> 0]
    ELSE [val |-> EmptyMap, obj |-> FreshObj]

\* getattr(self, 'context', {}): the mapping and the identity of the default
\* dict when the attribute is missing (0 when the attribute's own dict is used).
LookupContext(v) ==
    IF instContext[v].kind = "value" THEN [val |-> instContext[v].val, obj |-> 0]
    ELSE IF clsContext.kind = "value" THEN [val |-> clsContext.val, obj |-> 0]
    ELSE [val |-> EmptyMap, obj |-> FreshObj]

\* render_template(t, **kw) as the interpreter binds it: keywords must be
\* strings and none may name the parameter already bound positionally.
Forwardable(kw) ==
    \A k \in DOMAIN kw : k.type = "str" /\ k.name # RenderParam

\* What render_template itself may do once called.
FrameworkOutcomes(t, kw) ==
    { ReturnRendered(t, kw), Raise("TemplateNotFound", "framework") }

----------------------------------------------------------------------------
Init ==
    /\ clsTemplate \in
         {Absent("")} \cup {Plain(t) : t \in Templates}
         \cup {Computed("home.html", "none")}
         \cup {Computed("", e) : e \in GetterErrors}
    /\ clsContext \in {Absent(EmptyMap)} \cup {Plain(c) : c \in Contexts}
    /\ instTemplate = [v \in Views |-> Absent("")]
    /\ instContext = [v \in Views |-> Absent(EmptyMap)]
    /\ pc = [v \in Views |-> "unborn"]
    /\ op = [v \in Views |-> "none"]
    /\ tmplLocal = [v \in Views |-> NoLocal("")]
    /\ kwLocal = [v \in Views |-> NoLocal(EmptyMap)]
    /\ kwObj = [v \in Views |-> 0]
    /\ ctxRead = [v \in Views |-> FALSE]
    /\ calls = [v \in Views |-> 0]
    /\ lastCall = [v \in Views |-> NoCall]
    /\ renderOut = [v \in Views |-> NoOutcome]
    /\ result = [v \in Views |-> NoOutcome]

\* MethodView construction: TemplateMixin defines no __init__ and reads nothing.
Construct(v) ==
    /\ pc[v] = "unborn"
    /\ pc' = [pc EXCEPT ![v] = "idle"]
    /\ UNCHANGED << attrs, op, locals >>

\* view.template = t, by the integrator, between operations.
SetTemplate(v, t) ==
    /\ pc[v] = "idle"
    /\ clsTemplate.kind # "property"
    /\ instTemplate[v] # Plain(t)
    /\ instTemplate' = [instTemplate EXCEPT ![v] = Plain(t)]
    /\ UNCHANGED << clsTemplate, clsContext, instContext, pc, op, locals >>

\* view.context = c, by the integrator, between operations.
SetContext(v, c) ==
    /\ pc[v] = "idle"
    /\ instContext[v] # Plain(c)
    /\ instContext' = [instContext EXCEPT ![v] = Plain(c)]
    /\ UNCHANGED << clsTemplate, clsContext, instTemplate, pc, op, locals >>

\* view._template read from outside: lines 61-64 in one step.
InvokeTemplate(v) ==
    /\ pc[v] = "idle"
    /\ op' = [op EXCEPT ![v] = "_template"]
    /\ result' = [result EXCEPT ![v] = Template(v)]
    /\ pc' = [pc EXCEPT ![v] = "done"]
    /\ UNCHANGED << attrs, tmplLocal, kwLocal, kwObj, ctxRead, calls, lastCall, renderOut >>

\* view.render() called from outside.
InvokeRender(v) ==
    /\ pc[v] = "idle"
    /\ op' = [op EXCEPT ![v] = "render"]
    /\ pc' = [pc EXCEPT ![v] = "render"]
    /\ UNCHANGED << attrs, locals >>

\* view.get() dispatched by the framework; its body calls self.render().
InvokeGet(v) ==
    /\ pc[v] = "idle"
    /\ op' = [op EXCEPT ![v] = "get"]
    /\ pc' = [pc EXCEPT ![v] = "render"]
    /\ UNCHANGED << attrs, locals >>

\* Variant: the resolved template is cached on the view.
RenderResolveTemplate_Caches(v) ==
    /\ pc[v] = "render"
    /\ LET t == LookupTemplate(v)
       IN  IF t.kind = "return"
           THEN /\ tmplLocal' = [tmplLocal EXCEPT ![v] = Local(t.tpl)]
                /\ instTemplate' = [instTemplate EXCEPT ![v] = Plain(t.tpl)]
                /\ pc' = [pc EXCEPT ![v] = "ctx"]
                /\ UNCHANGED renderOut
           ELSE /\ renderOut' = [renderOut EXCEPT
                                   ![v] = IF t.err = "AttributeError"
                                          THEN Raise("NotImplementedError", "mixin") ELSE t]
                /\ pc' = [pc EXCEPT ![v] = "render_exit"]
                /\ UNCHANGED << tmplLocal, instTemplate >>
    /\ UNCHANGED << clsTemplate, clsContext, instContext, op, kwLocal, kwObj, ctxRead,
                    calls, lastCall, result >>

\* Variant: context is fetched into a local before the template is resolved.
RenderResolveTemplate_ContextFirst(v) ==
    /\ pc[v] = "render"
    /\ ctxRead' = [ctxRead EXCEPT ![v] = TRUE]
    /\ LET t == LookupTemplate(v)
       IN  IF t.kind = "return"
           THEN /\ tmplLocal' = [tmplLocal EXCEPT ![v] = Local(t.tpl)]
                /\ pc' = [pc EXCEPT ![v] = "ctx"]
                /\ UNCHANGED renderOut
           ELSE /\ renderOut' = [renderOut EXCEPT
                                   ![v] = IF t.err = "AttributeError"
                                          THEN Raise("NotImplementedError", "mixin") ELSE t]
                /\ pc' = [pc EXCEPT ![v] = "render_exit"]
                /\ UNCHANGED tmplLocal
    /\ UNCHANGED << attrs, op, kwLocal, kwObj, calls, lastCall, result >>

\* render, first argument: self._template. An error leaves the frame at once.
RenderResolveTemplate(v) ==
    /\ pc[v] = "render"
    /\ LET t == Template(v)
       IN  IF t.kind = "return"
           THEN /\ tmplLocal' = [tmplLocal EXCEPT ![v] = Local(t.tpl)]
                /\ pc' = [pc EXCEPT ![v] = "ctx"]
                /\ UNCHANGED renderOut
           ELSE /\ renderOut' = [renderOut EXCEPT ![v] = t]
                /\ pc' = [pc EXCEPT ![v] = "render_exit"]
                /\ UNCHANGED tmplLocal
    /\ UNCHANGED << attrs, op, kwLocal, kwObj, ctxRead, calls, lastCall, result >>

\* Variant: self.context is read without a default.
RenderReadContext_NoDefault(v) ==
    /\ pc[v] = "ctx"
    /\ ctxRead' = [ctxRead EXCEPT ![v] = TRUE]
    /\ IF instContext[v].kind = "absent" /\ clsContext.kind = "absent"
       THEN /\ renderOut' = [renderOut EXCEPT ![v] = Raise("AttributeError", "lookup")]
            /\ pc' = [pc EXCEPT ![v] = "render_exit"]
            /\ UNCHANGED kwLocal
       ELSE /\ kwLocal' = [kwLocal EXCEPT
                             ![v] = Local(IF instContext[v].kind = "value"
                                          THEN instContext[v].val ELSE clsContext.val)]
            /\ pc' = [pc EXCEPT ![v] = "call"]
            /\ UNCHANGED renderOut
    /\ UNCHANGED << attrs, op, tmplLocal, kwObj, calls, lastCall, result >>

\* render, second argument: getattr(self, 'context', {}).
RenderReadContext(v) ==
    /\ pc[v] = "ctx"
    /\ LET c == LookupContext(v)
       IN  /\ kwLocal' = [kwLocal EXCEPT ![v] = Local(c.val)]
           /\ kwObj' = [kwObj EXCEPT ![v] = c.obj]
    /\ ctxRead' = [ctxRead EXCEPT ![v] = TRUE]
    /\ pc' = [pc EXCEPT ![v] = "call"]
    /\ UNCHANGED << attrs, op, tmplLocal, calls, lastCall, renderOut, result >>

\* render: the call render_template(<template>, **<mapping>).
RenderCall(v) ==
    /\ pc[v] = "call"
    /\ IF Forwardable(kwLocal[v].val)
       THEN /\ calls' = [calls EXCEPT ![v] = @ + 1]
            /\ lastCall' = [lastCall EXCEPT
                              ![v] = [tpl |-> tmplLocal[v].val, ctx |-> kwLocal[v].val]]
            /\ \E o \in FrameworkOutcomes(tmplLocal[v].val, kwLocal[v].val) :
                  renderOut' = [renderOut EXCEPT ![v] = o]
       ELSE /\ renderOut' = [renderOut EXCEPT ![v] = Raise("TypeError", "call")]
            /\ UNCHANGED << calls, lastCall >>
    /\ kwObj' = [kwObj EXCEPT ![v] = 0]
    /\ pc' = [pc EXCEPT ![v] = "render_exit"]
    /\ UNCHANGED << attrs, op, tmplLocal, kwLocal, ctxRead, result >>

\* render returns (or its error leaves it) to whoever called it.
RenderReturn(v) ==
    /\ pc[v] = "render_exit"
    /\ IF op[v] = "get"
       THEN /\ pc' = [pc EXCEPT ![v] = "get_exit"]
            /\ UNCHANGED result
       ELSE /\ pc' = [pc EXCEPT ![v] = "done"]
            /\ result' = [result EXCEPT ![v] = renderOut[v]]
    /\ UNCHANGED << attrs, op, tmplLocal, kwLocal, kwObj, ctxRead, calls, lastCall, renderOut >>

\* Variant: get catches what render raises and answers with an empty body.
GetReturn_Swallows(v) ==
    /\ pc[v] = "get_exit"
    /\ result' = [result EXCEPT
                    ![v] = IF renderOut[v].kind = "raise"
                           THEN ReturnRendered("", EmptyMap) ELSE renderOut[v]]
    /\ pc' = [pc EXCEPT ![v] = "done"]
    /\ UNCHANGED << attrs, op, tmplLocal, kwLocal, kwObj, ctxRead, calls, lastCall, renderOut >>

\* get: return self.render()
GetReturn(v) ==
    /\ pc[v] = "get_exit"
    /\ result' = [result EXCEPT ![v] = renderOut[v]]
    /\ pc' = [pc EXCEPT ![v] = "done"]
    /\ UNCHANGED << attrs, op, tmplLocal, kwLocal, kwObj, ctxRead, calls, lastCall, renderOut >>

\* The caller has taken the outcome; the frames and their locals are gone.
Finish(v) ==
    /\ pc[v] = "done"
    /\ pc' = [pc EXCEPT ![v] = "idle"]
    /\ op' = [op EXCEPT ![v] = "none"]
    /\ tmplLocal' = [tmplLocal EXCEPT ![v] = NoLocal("")]
    /\ kwLocal' = [kwLocal EXCEPT ![v] = NoLocal(EmptyMap)]
    /\ ctxRead' = [ctxRead EXCEPT ![v] = FALSE]
    /\ calls' = [calls EXCEPT ![v] = 0]
    /\ lastCall' = [lastCall EXCEPT ![v] = NoCall]
    /\ renderOut' = [renderOut EXCEPT ![v] = NoOutcome]
    /\ result' = [result EXCEPT ![v] = NoOutcome]
    /\ UNCHANGED << attrs, kwObj >>

Next ==
    \/ \E v \in Views : Construct(v)
    \/ \E v \in Views, t \in InstTemplates : SetTemplate(v, t)
    \/ \E v \in Views, c \in InstContexts : SetContext(v, c)
    \/ \E v \in Views : InvokeTemplate(v)
    \/ \E v \in Views : InvokeRender(v)
    \/ \E v \in Views : InvokeGet(v)
    \/ \E v \in Views : RenderResolveTemplate(v)
    \/ \E v \in Views : RenderReadContext(v)
    \/ \E v \in Views : RenderCall(v)
    \/ \E v \in Views : RenderReturn(v)
    \/ \E v \in Views : GetReturn(v)
    \/ \E v \in Views : Finish(v)

Spec == Init /\ [][Next]_vars

----------------------------------------------------------------------------
\* Vocabulary of the properties.

TemplateUndefined(v) == clsTemplate.kind = "absent" /\ instTemplate[v].kind = "absent"
TemplateDefined(v) == ~TemplateUndefined(v)
ContextUndefined(v) == clsContext.kind = "absent" /\ instContext[v].kind = "absent"

\* The subclass sets template = T and nothing is assigned on the view.
ClassTemplate(v) == clsTemplate.kind = "value" /\ instTemplate[v].kind = "absent"
\* The subclass sets context = C and nothing is assigned on the view.
ClassContext(v) == clsContext.kind = "value" /\ instContext[v].kind = "absent"

ConfigMissing == Raise("NotImplementedError", "mixin")
RenderLeft(v) == op[v] \in {"render", "get"} /\ pc[v] \in {"render_exit", "get_exit", "done"}

\* The context mapping a view's attributes designate, {} when they designate none.
ContextOf(v) ==
    IF instContext[v].kind = "value" THEN instContext[v].val
    ELSE IF clsContext.kind = "value" THEN clsContext.val
    ELSE EmptyMap

\* render run on view v in one piece, on the attributes as they are now.
RenderOutcomes(v) ==
    LET t == Template(v)
    IN  IF t.kind = "raise" THEN {t}
        ELSE IF Forwardable(ContextOf(v)) THEN FrameworkOutcomes(t.tpl, ContextOf(v))
        ELSE {Raise("TypeError", "call")}

----------------------------------------------------------------------------
\* C1: when the subclass defines template = T, whatever T is (the empty string
\* included), resolution returns exactly T and raises nothing, both when
\* _template is read from outside and when render reads it.
C1_ResolutionReturnsTemplate ==
    \A v \in Views :
        ClassTemplate(v) =>
            /\ (pc[v] = "done" /\ op[v] = "_template") => result[v] = ReturnStr(clsTemplate.val)
            /\ pc[v] \in {"ctx", "call"} => tmplLocal[v] = Local(clsTemplate.val)
            /\ RenderLeft(v) => renderOut[v] # ConfigMissing

C1_Witness ==
    \E v \in Views :
        /\ clsTemplate = Plain("") /\ instTemplate[v].kind = "absent"
        /\ pc[v] = "done" /\ op[v] = "_template"
        /\ result[v] = ReturnStr("")

\* C2: with template defined nowhere, resolution, render and get each end in
\* the configuration-missing error; no rendering call is made and nothing is
\* returned.
C2_MissingTemplateRaises ==
    \A v \in Views :
        TemplateUndefined(v) =>
            /\ pc[v] = "done" => result[v] = ConfigMissing
            /\ RenderLeft(v) => renderOut[v] = ConfigMissing
            /\ pc[v] \notin {"ctx", "call"}
            /\ calls[v] = 0

C2_Witness ==
    \E v \in Views, w \in Views :
        /\ TemplateUndefined(v) /\ pc[v] = "done" /\ op[v] = "get"
        /\ result[v] = ConfigMissing
        /\ TemplateUndefined(w) /\ pc[w] = "done" /\ op[w] = "_template"
        /\ result[w] = ConfigMissing

\* C3 as stated: with template = T and context = C on the subclass, C any
\* mapping whatever its keys, render calls the rendering function once with T
\* and with exactly the entries of C.
C3_AnyContextForwarded ==
    \A v \in Views :
        (ClassTemplate(v) /\ ClassContext(v) /\ RenderLeft(v)) =>
            /\ calls[v] = 1
            /\ lastCall[v] = [tpl |-> clsTemplate.val, ctx |-> clsContext.val]

\* C3 amended: the same, for a mapping C whose keys are all strings and none
\* of them the name of the rendering function's template parameter.
C3_ForwardableContextForwarded ==
    \A v \in Views :
        (ClassTemplate(v) /\ ClassContext(v) /\ Forwardable(clsContext.val) /\ RenderLeft(v)) =>
            /\ calls[v] = 1
            /\ lastCall[v] = [tpl |-> clsTemplate.val, ctx |-> clsContext.val]

C3_Witness ==
    \E v \in Views :
        /\ ClassTemplate(v) /\ ClassContext(v) /\ DOMAIN clsContext.val # {}
        /\ Forwardable(clsContext.val)
        /\ op[v] = "render" /\ pc[v] = "done"
        /\ result[v] = ReturnRendered(clsTemplate.val, clsContext.val)

\* C4: with template = T and no context defined, render calls the rendering
\* function once with T and no keyword at all, and the absence of context is
\* not an error: render ends as the rendering function ends.
C4_DefaultEmptyContext ==
    \A v \in Views :
        (ClassTemplate(v) /\ ContextUndefined(v) /\ RenderLeft(v)) =>
            /\ calls[v] = 1
            /\ lastCall[v] = [tpl |-> clsTemplate.val, ctx |-> EmptyMap]
            /\ renderOut[v] \in FrameworkOutcomes(clsTemplate.val, EmptyMap)

C4_Witness ==
    \E v \in Views :
        /\ clsTemplate = Plain("home.html") /\ instTemplate[v].kind = "absent"
        /\ ContextUndefined(v)
        /\ op[v] = "get" /\ pc[v] = "done"
        /\ result[v] = ReturnRendered("home.html", EmptyMap)

\* C5: a finished get has the outcome of its render: the value render
\* returned, or the error render raised, unchanged; render ran once (no
\* retry) and the outcome is one render alone has on that view.
C5_GetIsRender ==
    \A v \in Views :
        (op[v] = "get" /\ pc[v] = "done") =>
            /\ renderOut[v].kind # "none"
            /\ result[v] = renderOut[v]
            /\ result[v] \in RenderOutcomes(v)
            /\ calls[v] <= 1

C5_Witness ==
    \E v \in Views, w \in Views :
        /\ op[v] = "get" /\ pc[v] = "done" /\ result[v].kind = "raise"
        /\ result[v].err = "TypeError"
        /\ op[w] = "get" /\ pc[w] = "done" /\ result[w].kind = "return"

\* C6 as stated: the only error the mixin raises is configuration-missing,
\* and an operation ends in it if and only if template is defined neither on
\* the subclass (plain or computed) nor on the view.
C6_ConfigMissingIffUndefined ==
    \A v \in Views :
        pc[v] = "done" =>
            /\ result[v].origin = "mixin" => result[v].err = "NotImplementedError"
            /\ (result[v] = ConfigMissing) <=> TemplateUndefined(v)

\* C7: no step of resolution, render or get changes template or context, on
\* the class or on any view; the arguments of a rendering call are therefore
\* what the attributes still designate after it, and a repetition finds them.
C7_StepsKeepAttributes ==
    [][ (\E v \in Views : pc'[v] # pc[v] /\ pc[v] # "unborn") => UNCHANGED attrs ]_vars

C7_CallMatchesAttributes ==
    \A v \in Views :
        (RenderLeft(v) /\ calls[v] = 1) =>
            /\ ReturnStr(lastCall[v].tpl) = LookupTemplate(v)
            /\ lastCall[v].ctx = ContextOf(v)

C7_NoLocalStateMutation == []C7_CallMatchesAttributes /\ C7_StepsKeepAttributes

C7_Witness ==
    \E v \in Views :
        /\ instTemplate[v].kind = "value" /\ instContext[v].kind = "value"
        /\ op[v] = "get" /\ pc[v] = "done" /\ calls[v] = 1

\* C8 as stated: construction raises nothing even without template;
\* configuration-missing appears only in an operation run while template is
\* undefined; and with template assigned on the view after construction,
\* render succeeds with that template.
C8_CallTimeEnforcement ==
    \A v \in Views :
        /\ pc[v] = "idle" => result[v] = NoOutcome
        /\ result[v] = ConfigMissing => TemplateUndefined(v)
        /\ (instTemplate[v].kind = "value" /\ op[v] = "render" /\ pc[v] = "done") =>
               result[v] = ReturnRendered(instTemplate[v].val, ContextOf(v))

\* C9 as stated: a get makes at most one rendering call, exactly one when
\* template is defined and none when it is undefined, where the template
\* check fails before context is read.
C9_OneCallWhenDefined ==
    \A v \in Views :
        /\ calls[v] <= 1
        /\ (op[v] = "get" /\ pc[v] = "done" /\ TemplateDefined(v)) => calls[v] = 1
        /\ (op[v] = "get" /\ TemplateUndefined(v)) => (calls[v] = 0 /\ ~ctxRead[v])

\* C9 amended: a get makes at most one rendering call: exactly one when
\* resolution returns a template and the context can be forwarded as
\* keywords, none otherwise; context is never read before resolution has
\* returned, so with template undefined it is not read and nothing is called.
C9_OneCallWhenResolved ==
    \A v \in Views :
        /\ calls[v] <= 1
        /\ (op[v] = "get" /\ pc[v] = "done") =>
              (calls[v] = 1 <=> (Template(v).kind = "return" /\ Forwardable(ContextOf(v))))
        /\ ctxRead[v] => tmplLocal[v].set
        /\ calls[v] = 1 => ctxRead[v]
        /\ (op[v] = "get" /\ TemplateUndefined(v)) =>
              /\ calls[v] = 0 /\ ~ctxRead[v]
              /\ pc[v] = "done" => result[v] = ConfigMissing

C9_Witness ==
    \E v \in Views, w \in Views :
        /\ op[v] = "get" /\ pc[v] = "done" /\ calls[v] = 1 /\ ctxRead[v]
        /\ op[w] = "get" /\ pc[w] = "done" /\ TemplateUndefined(w)
        /\ calls[w] = 0 /\ ~ctxRead[w]

\* C10: whatever the interleaving, a view of a subclass with template = T and
\* context = C (or none) has its rendering call receive T and C (or {}); a
\* step of one view changes nothing of another view or of the class; every
\* outcome is one the view has when run alone; the default {} held by one
\* view is empty and is held by no other view.
C10_CallsSeeClassConfig ==
    \A v \in Views :
        /\ (ClassTemplate(v) /\ instContext[v].kind = "absent" /\ calls[v] = 1) =>
              lastCall[v] = [tpl |-> clsTemplate.val,
                             ctx |-> IF clsContext.kind = "value" THEN clsContext.val
                                     ELSE EmptyMap]
        /\ pc[v] = "done" =>
              result[v] \in (IF op[v] = "_template" THEN {Template(v)} ELSE RenderOutcomes(v))
        /\ kwObj[v] # 0 =>
              /\ kwLocal[v].val = EmptyMap
              /\ \A w \in Views \ {v} : kwObj[w] # kwObj[v]

C10_StepsAreLocal ==
    [][ \A v \in Views :
          pc'[v] # pc[v] =>
             /\ clsTemplate' = clsTemplate /\ clsContext' = clsContext
             /\ \A w \in Views \ {v} :
                   /\ instTemplate'[w] = instTemplate[w] /\ instContext'[w] = instContext[w]
                   /\ pc'[w] = pc[w] /\ op'[w] = op[w]
                   /\ tmplLocal'[w] = tmplLocal[w] /\ kwLocal'[w] = kwLocal[w]
                   /\ kwObj'[w] = kwObj[w] /\ ctxRead'[w] = ctxRead[w]
                   /\ calls'[w] = calls[w] /\ lastCall'[w] = lastCall[w]
                   /\ renderOut'[w] = renderOut[w] /\ result'[w] = result[w] ]_vars

C10_ConcurrentRequestsIndependent == []C10_CallsSeeClassConfig /\ C10_StepsAreLocal

C10_Witness ==
    \E v \in Views, w \in Views :
        /\ v # w /\ ClassTemplate(v) /\ ClassTemplate(w)
        /\ ContextUndefined(v) /\ ContextUndefined(w)
        /\ pc[v] = "call" /\ pc[w] = "call"
        /\ kwObj[v] # 0 /\ kwObj[w] # 0

====
